---- MODULE Spec2Model ----
(***************************************************************************)
(* Model of the FIGO-stage survival scripts:                               *)
(*   fit_cox_basic.py   prepare, fit_basic and main (the model report)     *)
(*   summarize_figo.py  main (the cohort summary)                          *)
(* A DataFrame is a record [cols, rows]: cols is the sequence of column    *)
(* names, rows the sequence of rows, each row carrying its index label and *)
(* its cells (a function from column name to cell value).  The libraries   *)
(* that are not part of the repository (lifelines' fit, its summary and    *)
(* its proportional_hazard_test) succeed or raise: both outcomes are kept. *)
(***************************************************************************)
EXTENDS Integers, Sequences, FiniteSets, TLC

VARIABLES
    pc,        \* position of the running script's main
    df,        \* main's df: the frame read from figo_stage_survival.csv
    df_prep,   \* fit_cox_basic.main: the frame prepare returned
    covars,    \* fit_cox_basic.main: the covariate list fit_basic returned
    cph,       \* fit_cox_basic.main: the fitted model
    lines,     \* fit_cox_basic.main: the report lines built so far
    k,         \* fit_cox_basic.main: position of the loop over covars (line 84)
    out_file,  \* content of cox_basic_results.txt
    writes,    \* number of times cox_basic_results.txt was written
    summary,   \* summarize_figo.main: content of the cohort summary file
    error      \* the step whose exception left main uncaught, "" when none did

vars == <<pc, df, df_prep, covars, cph, lines, k, out_file, writes, summary, error>>

(* Largest number of rows of an enumerated input table. *)
MaxRows == 2

----------------------------------------------------------------------------
(* Cell values: a missing value (NaN / pd.NA), a number, a bool, a string. *)

NA == [t |-> "na"]

Num(n) == [t |-> "num", v |-> n]

Bool(b) == [t |-> "bool", v |-> b]

Str(s) == [t |-> "str", v |-> s]

isna(x) == x.t = "na"

(* The strings of the model that parse as a number, with their value. *)
NumericText == [s \in {"0", "1", "90"} |-> CASE s = "0" -> 0 [] s = "1" -> 1 [] s = "90" -> 90]

IsNumericText(s) == s \in DOMAIN NumericText

(* to_numeric that takes every string for non-numeric. *)
to_numeric_dropping_strings(x) == IF x.t = "str" THEN NA ELSE x

(* pd.to_numeric(..., errors='coerce') on one cell. *)

to_numeric(x) ==
    IF x.t = "str"
    THEN IF IsNumericText(x.v) THEN Num(NumericText[x.v]) ELSE NA
    ELSE x

(* pd.to_numeric(..., errors='raise') raises on a cell. *)
to_numeric_raises(x) == x.t = "str" /\ ~IsNumericText(x.v)

----------------------------------------------------------------------------
(* DataFrame helpers. *)

Range(s) == {s[i] : i \in DOMAIN s}

EmptyFrame == [cols |-> <<>>, rows |-> <<>>]

HasCol(tb, c) == c \in Range(tb.cols)

(* df[c]: the cells of column c, one per row. *)
Col(tb, c) == [i \in DOMAIN tb.rows |-> tb.rows[i].cells[c]]

(* df[c] = values: the column is overwritten in place, or appended last. *)
SetCol(tb, c, values) ==
    [cols |-> IF HasCol(tb, c) THEN tb.cols ELSE Append(tb.cols, c),
     rows |-> [i \in DOMAIN tb.rows |->
                 [idx   |-> tb.rows[i].idx,
                  cells |-> [n \in (DOMAIN tb.rows[i].cells) \cup {c} |->
                               IF n = c THEN values[i]
                                        ELSE tb.rows[i].cells[n]]]]]

(* Series.replace(old, new) *)
replace(col, old, new) == [i \in DOMAIN col |-> IF col[i] = old THEN new ELSE col[i]]

(* pd.to_numeric(col, errors='coerce'), and errors='raise' when no cell    *)
(* is rejected.                                                            *)
to_numeric_column(col) == [i \in DOMAIN col |-> to_numeric(col[i])]

(* df.dropna(subset=cs): the rows with a missing cell in one of cs go. *)
dropna(tb, cs) ==
    [tb EXCEPT !.rows = SelectSeq(tb.rows,
                            LAMBDA r : \A c \in cs : ~isna(r.cells[c]))]

(* df.rename(columns=m), m a function from old name to new name. *)
rename(tb, m) ==
    LET nn(c) == IF c \in DOMAIN m THEN m[c] ELSE c
    IN [cols |-> [i \in DOMAIN tb.cols |-> nn(tb.cols[i])],
        rows |-> [i \in DOMAIN tb.rows |->
                    [idx   |-> tb.rows[i].idx,
                     cells |-> [n \in {nn(c) : c \in DOMAIN tb.rows[i].cells} |->
                                  LET old == CHOOSE c \in DOMAIN tb.rows[i].cells : nn(c) = n
                                  IN tb.rows[i].cells[old]]]]]

----------------------------------------------------------------------------
(* fit_cox_basic.py: prepare *)

(* stage_group without its second test. *)
stage_group_no_IV(s) ==
    IF s = Str("Stage IIIC") THEN "IIIC" ELSE "EarlyMid"

(* stage_group with the reference label mistyped. *)
stage_group_typo(s) ==
    IF s = Str("Stage III") THEN "IIIC"
    ELSE IF s = Str("Stage IV") THEN "IV"
    ELSE "EarlyMid"

stage_group(s) ==
    IF s = Str("Stage IIIC") THEN "IIIC"
    ELSE IF s = Str("Stage IV") THEN "IV"
    ELSE "EarlyMid"

(* Level order of pd.get_dummies: the sorted distinct values. *)
GroupOrder == <<"EarlyMid", "IIIC", "IV">>

(* pd.get_dummies(df[c]): one bool column per value present in the column, *)
(* on the index of df.                                                     *)
get_dummies(tb, c) ==
    LET present == SelectSeq(GroupOrder,
                       LAMBDA g : \E i \in DOMAIN tb.rows : tb.rows[i].cells[c] = Str(g))
    IN [cols |-> present,
        rows |-> [i \in DOMAIN tb.rows |->
                    [idx   |-> tb.rows[i].idx,
                     cells |-> [g \in Range(present) |->
                                  Bool(tb.rows[i].cells[c] = Str(g))]]]]

(* df.drop(columns=cs) *)
drop_columns(tb, cs) ==
    [cols |-> SelectSeq(tb.cols, LAMBDA c : c \notin cs),
     rows |-> [i \in DOMAIN tb.rows |->
                 [idx   |-> tb.rows[i].idx,
                  cells |-> [n \in (DOMAIN tb.rows[i].cells) \ cs |->
                               tb.rows[i].cells[n]]]]]

(* pd.concat([a, b], axis=1) of two frames on the same index. *)
concat(a, b) ==
    [cols |-> a.cols \o b.cols,
     rows |-> [i \in DOMAIN a.rows |->
                 [idx   |-> a.rows[i].idx,
                  cells |-> [n \in (DOMAIN a.rows[i].cells) \cup (DOMAIN b.rows[i].cells) |->
                               IF n \in DOMAIN b.rows[i].cells
                               THEN b.rows[i].cells[n]
                               ELSE a.rows[i].cells[n]]]]]

RequiredCols == {"figo_stage", "survival_days", "event"}

(* prepare raises KeyError when a column it indexes is absent. *)
prepare_raises(tb) == ~(RequiredCols \subseteq Range(tb.cols))

prepare(tb) ==
    LET d1 == SetCol(tb, "figo_stage", replace(Col(tb, "figo_stage"), Str(""), NA))
        d2 == dropna(d1, {"figo_stage"})
        d3 == SetCol(d2, "stage_group",
                     [i \in DOMAIN d2.rows |->
                        Str(stage_group(d2.rows[i].cells["figo_stage"]))])
        g0 == get_dummies(d3, "stage_group")
        dummies == IF HasCol(g0, "IIIC") THEN drop_columns(g0, {"IIIC"}) ELSE g0
        d4 == concat(d3, dummies)
        rename_map == [c \in Range(dummies.cols) |->
                         IF c = "EarlyMid" THEN "stage_EarlyMid_vs_IIIC"
                                           ELSE "stage_IV_vs_IIIC"]
        d5 == rename(d4, rename_map)
        d6 == SetCol(d5, "survival_days", to_numeric_column(Col(d5, "survival_days")))
        d7 == SetCol(d6, "event", to_numeric_column(Col(d6, "event")))
    IN dropna(d7, {"survival_days", "event"})

----------------------------------------------------------------------------
(* fit_cox_basic.py: fit_basic *)

(* c.startswith('stage_') on the column names of the model. *)
StartsWithStage(c) ==
    c \in {"stage_group", "stage_EarlyMid_vs_IIIC", "stage_IV_vs_IIIC", "stage_memo"}

select_covars(tb) ==
    SelectSeq(tb.cols, LAMBDA c : StartsWithStage(c) /\ c # "stage_group")

(* The column c holds a cell pd.to_numeric(errors='raise') rejects. *)
column_raises(tb, c) == \E i \in DOMAIN tb.rows : to_numeric_raises(tb.rows[i].cells[c])

(* The number of covariates coerced before the loop stops: all of them, or *)
(* those before the first one that raises.                                 *)
RECURSIVE coerced_prefix(_, _)
coerced_prefix(tb, cs) ==
    IF cs = <<>> \/ column_raises(tb, Head(cs)) THEN 0
    ELSE 1 + coerced_prefix(tb, Tail(cs))

(* for c in covars: df[c] = pd.to_numeric(df[c], errors='raise'), applied  *)
(* to the first n covariates: the frame the caller passed is assigned to.  *)
RECURSIVE coerce_columns(_, _, _)
coerce_columns(tb, cs, n) ==
    IF n = 0 THEN tb
    ELSE coerce_columns(SetCol(tb, Head(cs), to_numeric_column(Col(tb, Head(cs)))),
                        Tail(cs), n - 1)

fit_basic_raises_type(tb) ==
    coerced_prefix(tb, select_covars(tb)) < Len(select_covars(tb))

(* The caller's frame after fit_basic ran (to its end or to the raise). *)
fit_basic_frame(tb) ==
    coerce_columns(tb, select_covars(tb), coerced_prefix(tb, select_covars(tb)))

(* The fitted model: one coefficient per covariate of the frame fitted. *)
NoModel == [fitted |-> FALSE, params |-> <<>>]

fitted_model(cs) == [fitted |-> TRUE, params |-> cs]

----------------------------------------------------------------------------
(* The input tables: what pd.read_csv hands to main. *)

SeqsUpTo(S, n) == UNION {[1..m -> S] : m \in 0..n}

(* A frame with a RangeIndex over the given rows of cells. *)
Frame(cols, cellrows) ==
    [cols |-> cols,
     rows |-> [i \in DOMAIN cellrows |-> [idx |-> i - 1, cells |-> cellrows[i]]]]

Stages == {NA, Str(""), Str("Stage IA"), Str("Stage IIIC"), Str("Stage IV")}

(* (survival_days, event) of a row: numeric, numeric text, unparseable     *)
(* text or missing, in one field or in both.                               *)
Outcomes ==
    { <<Num(365), Num(1)>>, <<Num(365), Num(0)>>, <<Str("90"), Str("1")>>,
      <<Str("90"), Num(0)>>, <<Str("unknown"), Num(1)>>, <<NA, Num(0)>>,
      <<Num(365), NA>>, <<Num(365), Str("x")>>, <<NA, Str("x")>> }

BaseCols == <<"figo_stage", "survival_days", "event">>

BaseRows ==
    { [c \in Range(BaseCols) |->
         CASE c = "figo_stage" -> s [] c = "survival_days" -> o[1] [] c = "event" -> o[2]]
      : s \in Stages, o \in Outcomes }

(* Tables that carry one more column whose name starts with stage_. *)
MemoCols == <<"figo_stage", "stage_memo", "survival_days", "event">>

MemoRows ==
    { [c \in Range(MemoCols) |->
         CASE c = "figo_stage" -> s [] c = "stage_memo" -> m
           [] c = "survival_days" -> Num(365) [] c = "event" -> Num(1)]
      : s \in {Str("Stage IA"), Str("Stage IIIC")},
        m \in {Str("1"), Str("0"), Str("high"), Num(1)} }

(* Tables without the event column. *)
ShortCols == <<"figo_stage", "survival_days">>

ShortRows ==
    { [c \in Range(ShortCols) |->
         CASE c = "figo_stage" -> s [] c = "survival_days" -> d]
      : s \in {NA, Str("Stage IA"), Str("Stage IV")}, d \in {Num(365), Str("unknown")} }

(* The 100-row table of the worked scenario: 40 Stage IA, 30 Stage IIIC,   *)
(* 30 Stage IV, every duration and event numeric.                          *)
ScenarioFrame ==
    Frame(BaseCols,
          [i \in 1..100 |->
             [c \in Range(BaseCols) |->
                CASE c = "figo_stage" ->
                       (IF i <= 40 THEN Str("Stage IA")
                        ELSE IF i <= 70 THEN Str("Stage IIIC") ELSE Str("Stage IV"))
                  [] c = "survival_days" -> Num(365)
                  [] c = "event" -> Num(i % 2)]])

InputFrames ==
    {Frame(BaseCols, rs) : rs \in SeqsUpTo(BaseRows, MaxRows)}
    \cup {Frame(MemoCols, rs) : rs \in SeqsUpTo(MemoRows, MaxRows)}
    \cup {Frame(ShortCols, rs) : rs \in SeqsUpTo(ShortRows, MaxRows)}
    \cup {ScenarioFrame}

----------------------------------------------------------------------------
(* fit_cox_basic.py: main *)

Line(kind) == [kind |-> kind, cov |-> ""]

CovLine(kind, c) == [kind |-> kind, cov |-> c]

(* Lines 57-75 of the report: title, coefficient table, C-index,           *)
(* log-likelihood and AIC.                                                 *)
model_lines(cs) ==
    <<Line("title"), Line("reference"), Line("grouping"), Line("blank"),
      Line("coef_header")>>
    \o [i \in DOMAIN cs |-> CovLine("coef", cs[i])]
    \o <<Line("blank"), Line("c_index"), Line("log_likelihood"), Line("aic"),
         Line("blank")>>

(* The cohort summary file before summarize_figo.main wrote it. *)
NoSummary == [written |-> FALSE]

Init ==
    /\ pc = "read"
    /\ df \in InputFrames
    /\ df_prep = EmptyFrame
    /\ covars = <<>>
    /\ cph = NoModel
    /\ lines = <<>>
    /\ k = 0
    /\ out_file = <<>>
    /\ writes = 0
    /\ summary = NoSummary
    /\ error = ""

(* line 53: df_prep = prepare(df) *)
Prepare ==
    /\ pc = "read"
    /\ ~prepare_raises(df)
    /\ df_prep' = prepare(df)
    /\ pc' = "prepared"
    /\ UNCHANGED <<df, covars, cph, lines, k, out_file, writes, summary, error>>

PrepareRaises ==
    /\ pc = "read"
    /\ prepare_raises(df)
    /\ pc' = "crashed"
    /\ error' = "prepare"
    /\ UNCHANGED <<df, df_prep, covars, cph, lines, k, out_file, writes, summary>>

(* line 54: cph, covars = fit_basic(df_prep) *)
FitBasic ==
    /\ pc = "prepared"
    /\ ~fit_basic_raises_type(df_prep)
    /\ df_prep' = fit_basic_frame(df_prep)
    /\ covars' = select_covars(df_prep)
    /\ cph' = fitted_model(select_covars(df_prep))
    /\ pc' = "fitted"
    /\ UNCHANGED <<df, lines, k, out_file, writes, summary, error>>

(* pd.to_numeric(errors='raise') rejects a covariate column (line 43). *)
FitBasicTypeError ==
    /\ pc = "prepared"
    /\ fit_basic_raises_type(df_prep)
    /\ df_prep' = fit_basic_frame(df_prep)
    /\ pc' = "crashed"
    /\ error' = "fit_basic"
    /\ UNCHANGED <<df, covars, cph, lines, k, out_file, writes, summary>>

(* The fit error swallowed: main goes on without a model. *)
FitBasicFitError_swallowed ==
    /\ pc = "prepared"
    /\ ~fit_basic_raises_type(df_prep)
    /\ df_prep' = fit_basic_frame(df_prep)
    /\ covars' = select_covars(df_prep)
    /\ pc' = "fitted"
    /\ UNCHANGED <<df, cph, lines, k, out_file, writes, summary, error>>

(* CoxPHFitter.fit raises (line 45). *)
FitBasicFitError ==
    /\ pc = "prepared"
    /\ ~fit_basic_raises_type(df_prep)
    /\ df_prep' = fit_basic_frame(df_prep)
    /\ pc' = "crashed"
    /\ error' = "fit_basic"
    /\ UNCHANGED <<df, covars, cph, lines, k, out_file, writes, summary>>

(* lines 55-75 *)
Report ==
    /\ pc = "fitted"
    /\ lines' = model_lines(covars)
    /\ pc' = "reported"
    /\ UNCHANGED <<df, df_prep, covars, cph, k, out_file, writes, summary, error>>

(* cph.summary, the concordance index or the log-likelihood raises. *)
ReportRaises ==
    /\ pc = "fitted"
    /\ pc' = "crashed"
    /\ error' = "report"
    /\ UNCHANGED <<df, df_prep, covars, cph, lines, k, out_file, writes, summary>>

(* lines 79-83: the test ran, the header is appended. *)
PHTest ==
    /\ pc = "reported"
    /\ lines' = Append(lines, Line("ph_header"))
    /\ k' = 1
    /\ pc' = "ph_loop"
    /\ UNCHANGED <<df, df_prep, covars, cph, out_file, writes, summary, error>>

(* lines 79-82 raise: the except clause appends the failure message. *)
PHTestRaises ==
    /\ pc = "reported"
    /\ lines' = Append(lines, Line("ph_failed"))
    /\ pc' = "write"
    /\ UNCHANGED <<df, df_prep, covars, cph, k, out_file, writes, summary, error>>

(* lines 84-87, one covariate *)
PHRow ==
    /\ pc = "ph_loop"
    /\ k <= Len(covars)
    /\ lines' = Append(lines, CovLine("ph_stat", covars[k]))
    /\ k' = k + 1
    /\ UNCHANGED <<pc, df, df_prep, covars, cph, out_file, writes, summary, error>>

(* The loop outside the try block: the exception leaves main. *)
PHRowRaises_uncaught ==
    /\ pc = "ph_loop"
    /\ k <= Len(covars)
    /\ pc' = "crashed"
    /\ error' = "diagnostic"
    /\ UNCHANGED <<df, df_prep, covars, cph, lines, k, out_file, writes, summary>>

(* reading or formatting the k-th covariate's statistics raises. *)
PHRowRaises ==
    /\ pc = "ph_loop"
    /\ k <= Len(covars)
    /\ lines' = Append(lines, Line("ph_failed"))
    /\ pc' = "write"
    /\ UNCHANGED <<df, df_prep, covars, cph, k, out_file, writes, summary, error>>

(* lines 88-93: the global line when the table has one, then the table. *)
PHTail ==
    /\ pc = "ph_loop"
    /\ k > Len(covars)
    /\ \E has_global \in BOOLEAN :
         lines' = lines
                  \o (IF has_global THEN <<Line("ph_global")>> ELSE <<>>)
                  \o <<Line("ph_table_header"), Line("ph_table")>>
    /\ pc' = "write"
    /\ UNCHANGED <<df, df_prep, covars, cph, k, out_file, writes, summary, error>>

(* reading or formatting the global row raises (lines 89-91). *)
PHTailRaises ==
    /\ pc = "ph_loop"
    /\ k > Len(covars)
    /\ lines' = Append(lines, Line("ph_failed"))
    /\ pc' = "write"
    /\ UNCHANGED <<df, df_prep, covars, cph, k, out_file, writes, summary, error>>

(* line 96: out_path.write_text *)
WriteReport ==
    /\ pc = "write"
    /\ out_file' = lines
    /\ writes' = writes + 1
    /\ pc' = "done"
    /\ UNCHANGED <<df, df_prep, covars, cph, lines, k, summary, error>>

Next ==
    \/ Prepare
    \/ PrepareRaises
    \/ FitBasic
    \/ FitBasicTypeError
    \/ FitBasicFitError
    \/ Report
    \/ ReportRaises
    \/ PHTest
    \/ PHTestRaises
    \/ PHRow
    \/ PHRowRaises
    \/ PHTail
    \/ PHTailRaises
    \/ WriteReport

Spec == Init /\ [][Next]_vars

----------------------------------------------------------------------------
(* summarize_figo.py: main *)

(* c.strip() on the column names of the model. *)
strip(c) == IF c = "event " THEN "event" ELSE c

(* line 9: df.columns = [c.strip() for c in df.columns] *)
strip_columns(tb) == rename(tb, [c \in Range(tb.cols) |-> strip(c)])

RECURSIVE SumSeq(_)
SumSeq(s) == IF s = <<>> THEN 0 ELSE Head(s) + SumSeq(Tail(s))

RECURSIVE SortedSeq(_)
SortedSeq(s) ==
    IF s = <<>> THEN <<>>
    ELSE LET i == CHOOSE j \in DOMAIN s : \A m \in DOMAIN s : s[j] <= s[m]
         IN <<s[i]>> \o SortedSeq(SubSeq(s, 1, i - 1) \o SubSeq(s, i + 1, Len(s)))

(* The numbers of column c in the given rows, missing values skipped. *)
numbers(rows, c) ==
    LET kept == SelectSeq(rows, LAMBDA r : r.cells[c].t = "num")
    IN [i \in DOMAIN kept |-> kept[i].cells[c].v]

(* int(Series.median()) of a non-empty sequence of numbers. *)
median_int(s) ==
    LET t == SortedSeq(s)
        n == Len(s)
    IN IF n % 2 = 1 THEN t[(n + 1) \div 2]
       ELSE (t[n \div 2] + t[n \div 2 + 1]) \div 2

(* lines 11 and 16: the stage and event columns main assigns to its df. *)
summarize_frame(tb) ==
    LET d0 == strip_columns(tb)
        d1 == SetCol(d0, "figo_stage", replace(Col(d0, "figo_stage"), Str(""), NA))
    IN SetCol(d1, "event", to_numeric_column(Col(d1, "event")))

(* The stage labels groupby('figo_stage') keeps: missing keys are dropped. *)
stage_keys(tb) ==
    {tb.rows[i].cells["figo_stage"] : i \in DOMAIN tb.rows} \ {NA}

rows_of_stage(tb, s) == SelectSeq(tb.rows, LAMBDA r : r.cells["figo_stage"] = s)

(* Series.median raises TypeError on a column holding text (line 28);      *)
(* int() raises ValueError on the NaN median of no numbers at all (line    *)
(* 28) or of a stage without a numeric duration (line 58).                 *)
summarize_raises(tb) ==
    LET d == summarize_frame(tb)
    IN \/ \E i \in DOMAIN d.rows : d.rows[i].cells["survival_days"].t = "str"
       \/ numbers(d.rows, "survival_days") = <<>>
       \/ \E s \in stage_keys(d) : numbers(rows_of_stage(d, s), "survival_days") = <<>>

(* line 18: censored = total - events *)
censored_count(total, events_col) == total - SumSeq(events_col)

(* lines 12-36 and 38-75: the figures the summary file reports.  The       *)
(* per-stage survival rows are kept as a mapping; the file lists them by   *)
(* decreasing median.                                                      *)
summarize(tb) ==
    LET d == summarize_frame(tb)
        total == Len(d.rows)
        surv == numbers(d.rows, "survival_days")
        sorted == SortedSeq(surv)
    IN [written       |-> TRUE,
        total         |-> total,
        events        |-> SumSeq(numbers(d.rows, "event")),
        censored      |-> censored_count(total, numbers(d.rows, "event")),
        missing_stage |-> Len(SelectSeq(d.rows, LAMBDA r : isna(r.cells["figo_stage"]))),
        stage_counts  |-> [s \in {d.rows[i].cells["figo_stage"] : i \in DOMAIN d.rows} |->
                             Len(rows_of_stage(d, s))],
        stage_event_rate |->
            [s \in stage_keys(d) |->
               [count |-> Len(numbers(rows_of_stage(d, s), "event")),
                sum   |-> SumSeq(numbers(rows_of_stage(d, s), "event"))]],
        median_overall |-> median_int(surv),
        min_surv      |-> sorted[1],
        max_surv      |-> sorted[Len(sorted)],
        survival_by_stage |->
            [s \in stage_keys(d) |->
               LET v == SortedSeq(numbers(rows_of_stage(d, s), "survival_days"))
               IN [count |-> Len(v), median |-> median_int(v),
                   min |-> v[1], max |-> v[Len(v)]]]]

SummaryStages == {NA, Str(""), Str("Stage IA"), Str("Stage IV")}

SummaryOutcomes ==
    { <<Num(365), Num(1)>>, <<Num(90), Num(0)>>, <<Num(365), Str("1")>>,
      <<Num(90), Str("x")>>, <<Num(365), NA>>, <<NA, Num(1)>>,
      <<Str("unknown"), Num(0)>> }

(* The header of the event column as written, or with a trailing blank. *)
SummaryHeaders == {BaseCols, <<"figo_stage", "survival_days", "event ">>}

SummaryFrames ==
    { Frame(h, [i \in DOMAIN rs |->
                  [c \in Range(h) |->
                     CASE c = "figo_stage" -> rs[i][1]
                       [] c = "survival_days" -> rs[i][2][1]
                       [] OTHER -> rs[i][2][2]]])
      : h \in SummaryHeaders,
        rs \in SeqsUpTo(SummaryStages \X SummaryOutcomes, MaxRows) }

InitSummary ==
    /\ pc = "read"
    /\ df \in SummaryFrames
    /\ df_prep = EmptyFrame
    /\ covars = <<>>
    /\ cph = NoModel
    /\ lines = <<>>
    /\ k = 0
    /\ out_file = <<>>
    /\ writes = 0
    /\ summary = NoSummary
    /\ error = ""

(* lines 7-76 *)
Summarize ==
    /\ pc = "read"
    /\ ~summarize_raises(df)
    /\ df' = summarize_frame(df)
    /\ summary' = summarize(df)
    /\ pc' = "done"
    /\ UNCHANGED <<df_prep, covars, cph, lines, k, out_file, writes, error>>

SummarizeRaises ==
    /\ pc = "read"
    /\ summarize_raises(df)
    /\ df' = summarize_frame(df)
    /\ pc' = "crashed"
    /\ error' = "summarize"
    /\ UNCHANGED <<df_prep, covars, cph, lines, k, out_file, writes, summary>>

NextSummary ==
    \/ Summarize
    \/ SummarizeRaises

SpecSummary == InitSummary /\ [][NextSummary]_vars

----------------------------------------------------------------------------
(* Properties *)

Indicators == {"stage_EarlyMid_vs_IIIC", "stage_IV_vs_IIIC"}

PresentIndicators(tb) == Indicators \cap Range(tb.cols)

IndicatorGroup(c) == IF c = "stage_EarlyMid_vs_IIIC" THEN "EarlyMid" ELSE "IV"

IsOne(x) == x = Bool(TRUE) \/ x = Num(1)

(* The number of indicator columns of the frame that are 1 in the row. *)
OnesIn(tb, r) == Cardinality({c \in PresentIndicators(tb) : IsOne(r.cells[c])})

StageMissing(r) == r.cells["figo_stage"] = NA \/ r.cells["figo_stage"] = Str("")

Numeric(x) == x.t = "num" \/ (x.t = "str" /\ x.v \in {"0", "1", "90"})

Excluded(r) ==
    \/ StageMissing(r)
    \/ ~Numeric(r.cells["survival_days"])
    \/ ~Numeric(r.cells["event"])

HasLine(ls, kind) == \E i \in DOMAIN ls : ls[i].kind = kind

(* C1: the rows prepare returns are exactly the input rows with a stage    *)
(* that is neither missing nor empty, a numeric survival_days and a        *)
(* numeric event, each once and in order; their number is the input's      *)
(* minus the number of rows failing at least one of the three conditions.  *)
C1_PreparedRows ==
    pc = "prepared" =>
        LET kept == SelectSeq(df.rows, LAMBDA r : ~Excluded(r))
        IN /\ Len(df_prep.rows) =
                Len(df.rows) - Cardinality({i \in DOMAIN df.rows : Excluded(df.rows[i])})
           /\ [i \in DOMAIN df_prep.rows |-> df_prep.rows[i].idx]
                = [i \in DOMAIN kept |-> kept[i].idx]
           /\ \A i \in DOMAIN df_prep.rows :
                /\ df_prep.rows[i].cells["figo_stage"] = kept[i].cells["figo_stage"]
                /\ df_prep.rows[i].cells["survival_days"].t = "num"
                /\ df_prep.rows[i].cells["event"].t = "num"

(* A row failing two conditions at once was dropped, another row was kept. *)
C1_Witness ==
    /\ pc = "prepared"
    /\ Len(df_prep.rows) >= 1
    /\ \E i \in DOMAIN df.rows :
         StageMissing(df.rows[i]) /\ ~Numeric(df.rows[i].cells["survival_days"])

(* C2: every row prepare returns has one stage_group, IIIC for 'Stage      *)
(* IIIC', IV for 'Stage IV' and EarlyMid for any other label; at most one  *)
(* indicator column of the table is 1 in the row, and none is exactly when *)
(* the row's group is IIIC.                                                *)
C2_OneGroupPerRow ==
    pc = "prepared" =>
        \A i \in DOMAIN df_prep.rows :
            LET r == df_prep.rows[i]
                g == r.cells["stage_group"]
            IN /\ g \in {Str("EarlyMid"), Str("IIIC"), Str("IV")}
               /\ (g = Str("IIIC")) = (r.cells["figo_stage"] = Str("Stage IIIC"))
               /\ (g = Str("IV")) = (r.cells["figo_stage"] = Str("Stage IV"))
               /\ OnesIn(df_prep, r) <= 1
               /\ (OnesIn(df_prep, r) = 0) = (g = Str("IIIC"))

(* The prepared table holds a reference row, an EarlyMid row and an IV row. *)
C2_Witness ==
    /\ pc = "prepared"
    /\ \A g \in {"EarlyMid", "IIIC", "IV"} :
         \E i \in DOMAIN df_prep.rows : df_prep.rows[i].cells["stage_group"] = Str(g)

(* C3: an indicator column is in the table prepare returns only if a row   *)
(* of that table belongs to the column's group.                            *)
C3_NoConstantZeroColumn ==
    pc = "prepared" =>
        \A c \in PresentIndicators(df_prep) :
            \E i \in DOMAIN df_prep.rows :
                df_prep.rows[i].cells["stage_group"] = Str(IndicatorGroup(c))

(* Every row of the frame belongs to one and the same stage group. *)
SingleGroup(tb) ==
    /\ tb.rows # <<>>
    /\ \A i, j \in DOMAIN tb.rows :
         tb.rows[i].cells["stage_group"] = tb.rows[j].cells["stage_group"]

(* C4: when all prepared rows share one stage group, prepare emits no      *)
(* indicator column and fit_basic returns an empty covariate list and a    *)
(* model without coefficients.                                             *)
C4_SingleGroupIsNullModel ==
    (~HasCol(df, "stage_memo") /\ HasCol(df_prep, "stage_group") /\ SingleGroup(df_prep)) =>
        /\ pc = "prepared" => PresentIndicators(df_prep) = {}
        /\ pc = "fitted" => covars = <<>> /\ cph.params = <<>>

(* The number of rows of the frame whose cell in column c is x. *)
CountCells(tb, c, x) == Cardinality({i \in DOMAIN tb.rows : tb.rows[i].cells[c] = x})

ScenarioCounts(early, reference, late) ==
    (pc = "prepared" /\ df = ScenarioFrame) =>
        /\ PresentIndicators(df_prep) = Indicators
        /\ Cardinality({i \in DOMAIN df_prep.rows :
                           IsOne(df_prep.rows[i].cells["stage_EarlyMid_vs_IIIC"])}) = early
        /\ Cardinality({i \in DOMAIN df_prep.rows :
                           OnesIn(df_prep, df_prep.rows[i]) = 0}) = reference
        /\ Cardinality({i \in DOMAIN df_prep.rows :
                           IsOne(df_prep.rows[i].cells["stage_IV_vs_IIIC"])}) = late

(* C5 as amended: for the 100-row scenario (Stage IA x40, Stage IIIC x30,  *)
(* Stage IV x30, all durations and events numeric) prepare returns 40 rows *)
(* with the EarlyMid indicator 1, 30 rows with every indicator 0 and 30    *)
(* rows with the IV indicator 1.                                           *)
C5_ScenarioCountsAmended == ScenarioCounts(40, 30, 30)

(* C5 as stated: 70 rows with the EarlyMid indicator 1, 30 rows with every *)
(* indicator 0 and 30 rows with the IV indicator 1.                        *)
C5_ScenarioCountsStated == ScenarioCounts(70, 30, 30)

(* The scenario table has been prepared and kept all of its 100 rows. *)
C5_Witness ==
    /\ pc = "prepared"
    /\ df = ScenarioFrame
    /\ Len(df_prep.rows) = 100

(* C6: a failure of the PH diagnostic never leaves main: a run crashes     *)
(* only in prepare, in fit_basic or while the model lines are built; after *)
(* a diagnostic failure the lines end with the failure message and start   *)
(* with the title, one coefficient line per covariate, the C-index, the    *)
(* log-likelihood and the AIC; the write can go ahead, and the file holds  *)
(* these lines.                                                            *)
C6_DiagnosticFailureIsCaught ==
    /\ pc = "crashed" => error \in {"prepare", "fit_basic", "report"}
    /\ pc \in {"ph_loop", "write", "done"} => error = ""
    /\ (pc \in {"write", "done"} /\ HasLine(lines, "ph_failed")) =>
          /\ lines[Len(lines)].kind = "ph_failed"
          /\ Len(lines) > Len(covars) + 10
          /\ SubSeq(lines, 1, 5) = <<Line("title"), Line("reference"), Line("grouping"),
                                     Line("blank"), Line("coef_header")>>
          /\ \A i \in DOMAIN covars : lines[5 + i] = CovLine("coef", covars[i])
          /\ SubSeq(lines, Len(covars) + 6, Len(covars) + 10)
               = <<Line("blank"), Line("c_index"), Line("log_likelihood"), Line("aic"),
                   Line("blank")>>
    /\ pc = "write" => ENABLED WriteReport
    /\ pc = "done" => writes = 1 /\ out_file = lines

(* The diagnostic of a model without covariates failed and the report was  *)
(* written with the failure message.                                       *)
C6_Witness ==
    /\ pc = "done"
    /\ cph.fitted
    /\ covars = <<>>
    /\ HasLine(out_file, "ph_failed")

(* C7: the report is written at most once, never in a run that crashed,    *)
(* and only when prepare returned, fit_basic returned a model and the      *)
(* diagnostic step is over; before the write nothing is in the file.       *)
C7_FatalBeforeWrite ==
    /\ writes \in {0, 1}
    /\ pc = "crashed" => writes = 0 /\ out_file = <<>>
    /\ error # "" => pc = "crashed"
    /\ pc # "done" => writes = 0 /\ out_file = <<>>
    /\ pc \in {"fitted", "reported", "ph_loop", "write", "done"} =>
          HasCol(df_prep, "stage_group") /\ cph.fitted /\ covars = cph.params
    /\ pc \in {"write", "done"} =>
          lines # <<>> /\ lines[Len(lines)].kind \in {"ph_failed", "ph_table"}
    /\ writes = 1 => pc = "done" /\ out_file = lines

(* fit_basic or the reading of the summary raised after prepare returned:  *)
(* the run is over and nothing was written.                                *)
C7_Witness ==
    /\ pc = "crashed"
    /\ error = "fit_basic"
    /\ HasCol(df_prep, "stage_group")
    /\ writes = 0

(* C8: prepare leaves the caller's df as it was and fit_basic leaves the   *)
(* caller's df_prep as it was.                                             *)
C8_InputsNotModified ==
    [][/\ pc = "read" => df' = df
       /\ pc = "prepared" => df_prep' = df_prep]_vars

(* The prepared data holds rows of all three stage groups. *)
AllGroupsPresent(tb) ==
    \A g \in {"EarlyMid", "IIIC", "IV"} :
        \E i \in DOMAIN tb.rows : tb.rows[i].cells["stage_group"] = Str(g)

(* C9: a written report has either the complete PH section (header, one    *)
(* statistic line per covariate, the summary table) and no failure         *)
(* message, or the failure message and neither the PH header nor any       *)
(* per-covariate PH line.  Stated for the runs on data with all three      *)
(* stage groups, where the model has both covariates.                      *)
C9_NoPartialDiagnostic ==
    (pc = "done" /\ AllGroupsPresent(df_prep)) =>
        IF HasLine(out_file, "ph_failed")
        THEN ~HasLine(out_file, "ph_header") /\ ~HasLine(out_file, "ph_stat")
        ELSE /\ HasLine(out_file, "ph_header")
             /\ \A i \in DOMAIN covars :
                  \E j \in DOMAIN out_file : out_file[j] = CovLine("ph_stat", covars[i])
             /\ HasLine(out_file, "ph_table")

(* C10: the cohort summary reports as censored the rows whose event is 0   *)
(* and as events the rows whose event is 1; the two add up to the total    *)
(* only when every row has a numeric event.                                *)
C10_CensoredCountsZeros ==
    (pc = "done" /\ summary.written) =>
        /\ summary.events = CountCells(df, "event", Num(1))
        /\ summary.censored = CountCells(df, "event", Num(0))
        /\ (summary.events + summary.censored = summary.total) =>
              \A i \in DOMAIN df.rows : df.rows[i].cells["event"].t = "num"

====
